---- MODULE Spec2Model ----
(***************************************************************************)
(* Artifact filtering pipeline of src/pkg/reg/filter/artifact.go.          *)
(*                                                                         *)
(* Strings are sequences of one-character strings so that the matchers    *)
(* can inspect them.  Artifact records live in a heap (a sequence of       *)
(* records); an artifact list is a sequence of references into the heap,   *)
(* so that "the same record" and "a new record" are different things.      *)
(***************************************************************************)
EXTENDS Integers, Sequences, FiniteSets, TLC

\* ------------------------------------------------------------------ bounds
MaxArts == 2
MaxRules == 2
MaxTypes == 2

\* ------------------------------------------------------------------ strings
S_empty == << >>
S_v1 == <<"v", "1">>
S_latest == <<"l", "a", "t", "e", "s", "t">>
S_v10 == <<"v", "1", ".", "0">>
S_stable == <<"s", "t", "a", "b", "l", "e">>
S_image == <<"i", "m", "a", "g", "e">>
S_IMAGE == <<"I", "M", "A", "G", "E">>
S_chart == <<"c", "h", "a", "r", "t">>

P_vStar == <<"v", "*">>
P_badGlob == <<"[", "v">>
P_reV == <<"^", "v", ".", "*">>
P_reS == <<"^", "s", ".", "*">>
P_reZ == <<"^", "z", ".", "*">>
P_reBad == <<"(", "u">>

\* model.Matches / model.Excludes and the filter types
Matches == "matches"
Excludes == "excludes"
FilterTypeLabel == "label"
FilterTypeTag == "tag"
FilterTypeTagRegex == "tagRegex"
FilterTypeLabelRegex == "labelRegex"
FilterTypeName == "name"

\* error values
NoErr == "nil"
ErrRegexCompile == "error parsing regexp"
ErrBadPattern == "syntax error in pattern"

\* ------------------------------------------------------------------ matchers
Upper == <<"A", "C", "E", "G", "H", "I", "M", "R", "T">>
Lower == <<"a", "c", "e", "g", "h", "i", "m", "r", "t">>

\* strings.ToLower, character by character
ToLowerChar(c) ==
  IF \E i \in 1..Len(Upper) : Upper[i] = c
  THEN Lower[CHOOSE i \in 1..Len(Upper) : Upper[i] = c]
  ELSE c

ToLower(s) == [i \in 1..Len(s) |-> ToLowerChar(s[i])]

\* strings.EqualFold: equality under simple case folding
EqualFold(s, t) ==
  /\ Len(s) = Len(t)
  /\ \A i \in 1..Len(s) : ToLowerChar(s[i]) = ToLowerChar(t[i])

RECURSIVE ParenDepth(_, _, _)
\* depth of open groups after scanning p from position i; -1 when a group is closed that was never opened
ParenDepth(p, i, d) ==
  IF d < 0 THEN -1
  ELSE IF i > Len(p) THEN d
  ELSE IF p[i] = "(" THEN ParenDepth(p, i + 1, d + 1)
  ELSE IF p[i] = ")" THEN ParenDepth(p, i + 1, d - 1)
  ELSE ParenDepth(p, i + 1, d)

\* regexp.Compile: the error it returns (unbalanced group, repetition without argument)
RegexCompileErr(p) ==
  IF ParenDepth(p, 1, 0) # 0 THEN ErrRegexCompile
  ELSE IF Len(p) > 0 /\ p[1] = "*" THEN ErrRegexCompile
  ELSE NoErr

RECURSIVE RegexHere(_, _, _, _)
\* does p from position i match s starting exactly at position j
RegexHere(p, i, s, j) ==
  IF i > Len(p) THEN TRUE
  ELSE IF i + 1 <= Len(p) /\ p[i + 1] = "*"
    THEN \E k \in j..(Len(s) + 1) :
           /\ \A m \in j..(k - 1) : p[i] = "." \/ s[m] = p[i]
           /\ RegexHere(p, i + 2, s, k)
  ELSE IF p[i] = "$" /\ i = Len(p) THEN j = Len(s) + 1
  ELSE IF j <= Len(s) /\ (p[i] = "." \/ p[i] = s[j])
    THEN RegexHere(p, i + 1, s, j + 1)
  ELSE FALSE

\* (*Regexp).MatchString: unanchored search unless the pattern starts with ^
MatchString(p, s) ==
  IF Len(p) > 0 /\ p[1] = "^" THEN RegexHere(p, 2, s, 1)
  ELSE \E j \in 1..(Len(s) + 1) : RegexHere(p, 1, s, j)

RECURSIVE GlobHere(_, _, _, _)
\* glob match of the whole rest of s (from j) against the rest of p (from i)
GlobHere(p, i, s, j) ==
  IF i > Len(p) THEN j = Len(s) + 1
  ELSE IF p[i] = "*"
    THEN \E k \in j..(Len(s) + 1) :
           /\ \A m \in j..(k - 1) : s[m] # "/"
           /\ GlobHere(p, i + 1, s, k)
  ELSE IF p[i] = "?"
    THEN j <= Len(s) /\ s[j] # "/" /\ GlobHere(p, i + 1, s, j + 1)
  ELSE j <= Len(s) /\ s[j] = p[i] /\ GlobHere(p, i + 1, s, j + 1)

RECURSIVE ClassOpen(_, _, _)
\* is a character class left open in p
ClassOpen(p, i, open) ==
  IF i > Len(p) THEN open
  ELSE IF p[i] = "[" THEN ClassOpen(p, i + 1, TRUE)
  ELSE IF p[i] = "]" THEN ClassOpen(p, i + 1, FALSE)
  ELSE ClassOpen(p, i + 1, open)

\* util.Match: the error (malformed pattern)
MatchErr(pattern, str) ==
  IF ClassOpen(pattern, 1, FALSE) THEN ErrBadPattern ELSE NoErr

\* util.Match: the boolean
Match(pattern, str) ==
  IF Len(pattern) = 0 THEN TRUE ELSE GlobHere(pattern, 1, str, 1)

\* ------------------------------------------------------------------ records
\* model.Artifact
Artifact(type, digest, tags, labels, isAcc, parentTags) ==
  [Type |-> type, Digest |-> digest, Tags |-> tags, Labels |-> labels,
   IsAcc |-> isAcc, ParentTags |-> parentTags]

\* model.Filter
Filter(type, value, decoration) ==
  [Type |-> type, Value |-> value, Decoration |-> decoration]

\* result of one Filter call: the heap after it, the returned list, the error, and whether it panicked
Result(h, list, err, panic) ==
  [heap |-> h, list |-> list, err |-> err, panic |-> panic]

\* mutant: the narrowed record overwrites the record it was made from
Alloc_InPlace(h, rec) ==
  LET r == CHOOSE k \in 1..Len(h) : h[k].Digest = rec.Digest
  IN [heap |-> [h EXCEPT ![r] = rec], ref |-> r]

\* &model.Artifact{...}: a new record at a fresh address
Alloc(h, rec) == [heap |-> Append(h, rec), ref |-> Len(h) + 1]

\* mutant: the decoration is ignored
Keep_IgnoreDecoration(decoration, match) == match

\* the if/else on a.decoration that every strategy repeats
Keep(decoration, match) ==
  IF decoration = Excludes THEN ~match ELSE match

\* mutant: the accessory is emitted with the matched parent tags
AccRecord_MatchedTags(artifact, tags) ==
  [Type |-> artifact.Type, Digest |-> artifact.Digest, Labels |-> artifact.Labels,
   Tags |-> tags, IsAcc |-> FALSE, ParentTags |-> << >>]

\* the record emitted for a surviving accessory artifact
AccRecord(artifact, tags) ==
  [Type |-> artifact.Type, Digest |-> artifact.Digest, Labels |-> artifact.Labels,
   Tags |-> artifact.Tags, IsAcc |-> FALSE, ParentTags |-> << >>]

\* the record emitted for a surviving individual artifact
NarrowedRecord(artifact, tags) ==
  [Type |-> artifact.Type, Digest |-> artifact.Digest, Labels |-> artifact.Labels,
   Tags |-> tags, IsAcc |-> FALSE, ParentTags |-> << >>]

\* tagsForMatching
TagsForMatching(artifact) ==
  IF artifact.IsAcc THEN artifact.ParentTags ELSE artifact.Tags

\* ------------------------------------------------------------------ strategies
RECURSIVE TypeLoop(_, _, _, _)
\* inner loop over a.types for one artifact: continue only continues this loop
TypeLoop(types, ref, artType, result) ==
  IF types = << >> THEN result
  ELSE TypeLoop(Tail(types), ref, artType,
                IF EqualFold(ToLower(artType), ToLower(Head(types)))
                THEN Append(result, ref) ELSE result)

RECURSIVE TypeArtifacts(_, _, _, _)
TypeArtifacts(types, h, artifacts, result) ==
  IF artifacts = << >> THEN result
  ELSE TypeArtifacts(types, h, Tail(artifacts),
                     TypeLoop(types, Head(artifacts), h[Head(artifacts)].Type, result))

artifactTypeFilter_Filter(types, h, artifacts) ==
  IF Len(types) = 0 THEN Result(h, artifacts, NoErr, FALSE)
  ELSE Result(h, TypeArtifacts(types, h, artifacts, << >>), NoErr, FALSE)

\* match of one artifact against the label filter: every filter label is one of the artifact's labels
LabelMatch(labels, artifact) ==
  \A i \in 1..Len(labels) : \E j \in 1..Len(artifact.Labels) : artifact.Labels[j] = labels[i]

artifactLabelFilter_Filter(a, h, artifacts) ==
  IF Len(a.labels) = 0 THEN Result(h, artifacts, NoErr, FALSE)
  ELSE Result(h, SelectSeq(artifacts, LAMBDA r : Keep(a.decoration, LabelMatch(a.labels, h[r]))),
              NoErr, FALSE)

RECURSIVE TagLoop(_, _, _, _)
\* the loop over artifacts of artifactTagFilter.Filter
TagLoop(a, h, artifacts, result) ==
  IF artifacts = << >> THEN Result(h, result, NoErr, FALSE)
  ELSE
    LET ref == Head(artifacts)
        artifact == h[ref]
        tagsForMatching == TagsForMatching(artifact)
    IN IF Len(tagsForMatching) = 0
       THEN IF MatchErr(a.pattern, S_empty) # NoErr
            THEN Result(h, << >>, MatchErr(a.pattern, S_empty), FALSE)
            ELSE TagLoop(a, h, Tail(artifacts),
                         IF Keep(a.decoration, Match(a.pattern, S_empty))
                         THEN Append(result, ref) ELSE result)
       ELSE IF MatchErr(a.pattern, tagsForMatching[1]) # NoErr
            THEN Result(h, << >>, MatchErr(a.pattern, tagsForMatching[1]), FALSE)
            ELSE
              LET tags == SelectSeq(tagsForMatching,
                                    LAMBDA tag : Keep(a.decoration, Match(a.pattern, tag)))
                  new == Alloc(h, IF artifact.IsAcc THEN AccRecord(artifact, tags)
                                  ELSE NarrowedRecord(artifact, tags))
              IN IF Len(tags) = 0 THEN TagLoop(a, h, Tail(artifacts), result)
                 ELSE TagLoop(a, new.heap, Tail(artifacts), Append(result, new.ref))

artifactTagFilter_Filter(a, h, artifacts) ==
  IF Len(a.pattern) = 0 THEN Result(h, artifacts, NoErr, FALSE)
  ELSE TagLoop(a, h, artifacts, << >>)

RECURSIVE TagRegexLoop(_, _, _, _)
\* the loop over artifacts of artifactTagFilterRegex.Filter
TagRegexLoop(a, h, artifacts, result) ==
  IF artifacts = << >> THEN Result(h, result, NoErr, FALSE)
  ELSE
    LET ref == Head(artifacts)
        artifact == h[ref]
        tagsForMatching == TagsForMatching(artifact)
    IN IF Len(tagsForMatching) = 0
       THEN TagRegexLoop(a, h, Tail(artifacts),
                         IF Keep(a.decoration, MatchString(a.pattern, S_empty))
                         THEN Append(result, ref) ELSE result)
       ELSE
         LET tags == SelectSeq(tagsForMatching,
                               LAMBDA tag : Keep(a.decoration, MatchString(a.pattern, tag)))
             new == Alloc(h, IF artifact.IsAcc THEN AccRecord(artifact, tags)
                             ELSE NarrowedRecord(artifact, tags))
         IN IF Len(tags) = 0 THEN TagRegexLoop(a, h, Tail(artifacts), result)
            ELSE TagRegexLoop(a, new.heap, Tail(artifacts), Append(result, new.ref))

artifactTagFilterRegex_Filter(a, h, artifacts) ==
  IF Len(a.pattern) = 0 THEN Result(h, artifacts, NoErr, FALSE)
  ELSE IF RegexCompileErr(a.pattern) # NoErr
    THEN Result(h, << >>, RegexCompileErr(a.pattern), FALSE)
  ELSE TagRegexLoop(a, h, artifacts, << >>)

RECURSIVE LabelRegexInner(_, _, _, _)
\* for i, lbl := range artifact.Labels: "ok" when the loop ends, "nomatch" on
\* break outer, "panic" when artifacts[i] is out of range (n = len(artifacts))
LabelRegexInner(pattern, artLabels, i, n) ==
  IF i > Len(artLabels) THEN "ok"
  ELSE IF i > n THEN "panic"
  ELSE IF ~MatchString(pattern, artLabels[i]) THEN "nomatch"
  ELSE LabelRegexInner(pattern, artLabels, i + 1, n)

RECURSIVE LabelRegexOuter(_, _, _)
\* outer: for _, label := range a.labels: "match", "nomatch", "err" or "panic"
LabelRegexOuter(labels, artLabels, n) ==
  IF labels = << >> THEN "match"
  ELSE IF RegexCompileErr(Head(labels)) # NoErr THEN "err"
  ELSE LET r == LabelRegexInner(Head(labels), artLabels, 1, n)
       IN IF r = "ok" THEN LabelRegexOuter(Tail(labels), artLabels, n) ELSE r

RECURSIVE LabelRegexLoop(_, _, _, _, _)
\* the loop over artifacts of artifactLabelFilterRegex.Filter
LabelRegexLoop(a, h, all, artifacts, result) ==
  IF artifacts = << >> THEN Result(h, result, NoErr, FALSE)
  ELSE
    LET ref == Head(artifacts)
        r == LabelRegexOuter(a.labels, h[ref].Labels, Len(all))
    IN IF r = "panic" THEN Result(h, << >>, NoErr, TRUE)
       ELSE IF r = "err" THEN Result(h, << >>, ErrRegexCompile, FALSE)
       ELSE LabelRegexLoop(a, h, all, Tail(artifacts),
                           IF Keep(a.decoration, r = "match")
                           THEN Append(result, ref) ELSE result)

artifactLabelFilterRegex_Filter(a, h, artifacts) ==
  IF Len(a.labels) = 0 THEN Result(h, artifacts, NoErr, FALSE)
  ELSE LabelRegexLoop(a, h, artifacts, artifacts, << >>)

\* a strategy object: the struct built by BuildArtifactFilters
Strategy(kind, pattern, labels, decoration) ==
  [kind |-> kind, pattern |-> pattern, labels |-> labels, decoration |-> decoration]

\* filter.Filter(artifacts): dynamic dispatch on the strategy's type
ArtifactFilter_Filter(f, h, artifacts) ==
  CASE f.kind = "artifactLabelFilter" -> artifactLabelFilter_Filter(f, h, artifacts)
    [] f.kind = "artifactTagFilter" -> artifactTagFilter_Filter(f, h, artifacts)
    [] f.kind = "artifactTagFilterRegex" -> artifactTagFilterRegex_Filter(f, h, artifacts)
    [] f.kind = "artifactLabelFilterRegex" -> artifactLabelFilterRegex_Filter(f, h, artifacts)

\* mutant: the strategy is put in front of the list
BuildOne_Prepend(fs, filter) ==
  CASE filter.Type = FilterTypeLabel ->
         <<Strategy("artifactLabelFilter", << >>, filter.Value, filter.Decoration)>> \o fs
    [] filter.Type = FilterTypeTag ->
         <<Strategy("artifactTagFilter", filter.Value, << >>, filter.Decoration)>> \o fs
    [] filter.Type = FilterTypeTagRegex ->
         <<Strategy("artifactTagFilterRegex", filter.Value, << >>, filter.Decoration)>> \o fs
    [] filter.Type = FilterTypeLabelRegex ->
         <<Strategy("artifactLabelFilterRegex", << >>, filter.Value, filter.Decoration)>> \o fs
    [] OTHER -> fs

\* one iteration of the loop of BuildArtifactFilters: fs after handling filter
BuildOne(fs, filter) ==
  CASE filter.Type = FilterTypeLabel ->
         Append(fs, Strategy("artifactLabelFilter", << >>, filter.Value, filter.Decoration))
    [] filter.Type = FilterTypeTag ->
         Append(fs, Strategy("artifactTagFilter", filter.Value, << >>, filter.Decoration))
    [] filter.Type = FilterTypeTagRegex ->
         Append(fs, Strategy("artifactTagFilterRegex", filter.Value, << >>, filter.Decoration))
    [] filter.Type = FilterTypeLabelRegex ->
         Append(fs, Strategy("artifactLabelFilterRegex", << >>, filter.Value, filter.Decoration))
    [] OTHER -> fs

\* mutant: the artifacts filtered so far are returned with the error
ErrReturn_Partial(artifacts, err) == [artifacts |-> artifacts, err |-> err]

\* ArtifactFilters.Filter: what is returned when a strategy fails
ErrReturn(artifacts, err) == [artifacts |-> << >>, err |-> err]

\* ------------------------------------------------------------------ inputs
\* artifacts a caller can pass (the digest is set from the position in the list)
ArtifactPool ==
  << Artifact(S_image, 0, <<S_v1, S_latest>>, <<S_v10, S_stable>>, FALSE, << >>),
     Artifact(S_chart, 0, << >>, << >>, FALSE, << >>),
     Artifact(S_image, 0, <<S_latest>>, <<S_stable>>, TRUE, <<S_v1>>),
     Artifact(S_IMAGE, 0, <<S_v1>>, <<S_stable>>, FALSE, << >>) >>

\* filter rules a caller can pass
FilterPool ==
  << Filter(FilterTypeTag, P_vStar, Matches),
     Filter(FilterTypeTag, P_vStar, Excludes),
     Filter(FilterTypeTag, S_empty, Excludes),
     Filter(FilterTypeTag, P_badGlob, Matches),
     Filter(FilterTypeTagRegex, P_reV, Matches),
     Filter(FilterTypeTagRegex, P_reV, Excludes),
     Filter(FilterTypeTagRegex, P_reBad, Matches),
     Filter(FilterTypeLabel, <<S_stable>>, Matches),
     Filter(FilterTypeLabelRegex, <<P_reV, P_reS>>, Matches),
     Filter(FilterTypeLabelRegex, <<P_reS>>, Excludes),
     Filter(FilterTypeLabelRegex, <<P_reZ, P_reBad>>, Matches),
     Filter(FilterTypeName, S_image, Matches) >>

\* types an artifactTypeFilter can be configured with
TypePool == <<S_image, S_IMAGE, S_chart>>

\* all sequences of length at most n over the indices of pool
Lists(pool, n) == UNION { [1..k -> 1..Len(pool)] : k \in 0..n }

\* ------------------------------------------------------------------ state
VARIABLES call, input, filters, types, heap, pc, fs, bi, cur, si, applied, ret

vars == <<call, input, filters, types, heap, pc, fs, bi, cur, si, applied, ret>>

Init ==
  /\ \E c \in Lists(ArtifactPool, MaxArts) :
       /\ heap = [k \in 1..Len(c) |-> [ArtifactPool[c[k]] EXCEPT !.Digest = k]]
       /\ input = [k \in 1..Len(c) |-> k]
  /\ \/ /\ call = "DoFilterArtifacts"
        /\ \E c \in Lists(FilterPool, MaxRules) :
             filters = [k \in 1..Len(c) |-> FilterPool[c[k]]]
        /\ types = << >>
        /\ pc = "build"
     \/ /\ call = "artifactTypeFilter.Filter"
        /\ \E c \in Lists(TypePool, MaxTypes) :
             types = [k \in 1..Len(c) |-> TypePool[c[k]]]
        /\ filters = << >>
        /\ pc = "typeFilter"
  /\ fs = << >>
  /\ bi = 1
  /\ cur = << >>
  /\ si = 1
  /\ applied = << >>
  /\ ret = [artifacts |-> << >>, err |-> NoErr]

\* BuildArtifactFilters: one iteration of the loop over filters
BuildStep ==
  /\ pc = "build"
  /\ bi <= Len(filters)
  /\ fs' = BuildOne(fs, filters[bi])
  /\ bi' = bi + 1
  /\ UNCHANGED <<call, input, filters, types, heap, pc, cur, si, applied, ret>>

\* BuildArtifactFilters returns (fs, nil); DoFilterArtifacts calls fl.Filter(artifacts)
BuildReturn ==
  /\ pc = "build"
  /\ bi > Len(filters)
  /\ pc' = "filter"
  /\ cur' = input
  /\ si' = 1
  /\ UNCHANGED <<call, input, filters, types, heap, fs, bi, applied, ret>>

\* ArtifactFilters.Filter: one iteration, artifacts, err = filter.Filter(artifacts)
FilterStep ==
  /\ pc = "filter"
  /\ si <= Len(fs)
  /\ LET r == ArtifactFilter_Filter(fs[si], heap, cur)
     IN /\ heap' = r.heap
        /\ applied' = Append(applied, si)
        /\ IF r.panic
           THEN pc' = "panic" /\ UNCHANGED <<cur, si, ret>>
           ELSE IF r.err # NoErr
           THEN pc' = "done" /\ ret' = ErrReturn(cur, r.err) /\ UNCHANGED <<cur, si>>
           ELSE cur' = r.list /\ si' = si + 1 /\ UNCHANGED <<pc, ret>>
  /\ UNCHANGED <<call, input, filters, types, fs, bi>>

\* ArtifactFilters.Filter: return artifacts, nil
FilterReturn ==
  /\ pc = "filter"
  /\ si > Len(fs)
  /\ pc' = "done"
  /\ ret' = [artifacts |-> cur, err |-> NoErr]
  /\ UNCHANGED <<call, input, filters, types, heap, fs, bi, cur, si, applied>>

\* artifactTypeFilter.Filter, called on its own
TypeFilterCall ==
  /\ pc = "typeFilter"
  /\ LET r == artifactTypeFilter_Filter(types, heap, input)
     IN /\ heap' = r.heap
        /\ ret' = [artifacts |-> r.list, err |-> r.err]
  /\ pc' = "done"
  /\ UNCHANGED <<call, input, filters, types, fs, bi, cur, si, applied>>

Next ==
  \/ BuildStep
  \/ BuildReturn
  \/ FilterStep
  \/ FilterReturn
  \/ TypeFilterCall

Spec == Init /\ [][Next]_vars

\* ------------------------------------------------------------------ properties
\* the input artifact an output record stems from (digests identify artifacts)
Origin(r) == CHOOSE k \in 1..Len(input) : heap[k].Digest = heap[r].Digest

\* the heap as the caller passed it
InputHeap == SubSeq(heap, 1, Len(input))

\* cur is the output of the first strategy applied to the input list
FirstOut == call = "DoFilterArtifacts" /\ pc = "filter" /\ si = 2

\* DoFilterArtifacts returned a list and no error
ReturnedOk == call = "DoFilterArtifacts" /\ pc = "done" /\ ret.err = NoErr

IsTagStrategy(f) ==
  /\ f.kind \in {"artifactTagFilter", "artifactTagFilterRegex"}
  /\ Len(f.pattern) > 0

IsLabelStrategy(f) ==
  /\ f.kind \in {"artifactLabelFilter", "artifactLabelFilterRegex"}
  /\ Len(f.labels) > 0

\* does the tag strategy f keep tag under its decoration
KeepsTag(f, tag) ==
  LET m == IF f.kind = "artifactTagFilter" THEN Match(f.pattern, tag)
           ELSE MatchString(f.pattern, tag)
  IN IF f.decoration = Excludes THEN ~m ELSE m

\* positions of the list whose record has digest d
Positions(list, d) == { j \in 1..Len(list) : heap[list[j]].Digest = d }

\* C2: after a Tag or TagRegex strategy with a non-empty pattern, every input
\* artifact with a non-empty tag source is dropped iff no tag of the source is
\* kept, and otherwise yields exactly one record with the same type, digest and
\* labels whose tags are the kept tags (individual artifact) or the artifact's
\* own tags (accessory).
C2_TagNarrowing ==
  (FirstOut /\ IsTagStrategy(fs[1])) =>
    \A k \in 1..Len(input) :
      LET art == heap[k]
          src == IF art.IsAcc THEN art.ParentTags ELSE art.Tags
          kept == SelectSeq(src, LAMBDA t : KeepsTag(fs[1], t))
          outs == Positions(cur, art.Digest)
      IN src # << >> =>
           IF kept = << >> THEN outs = {}
           ELSE /\ Cardinality(outs) = 1
                /\ \A j \in outs :
                     /\ heap[cur[j]].Type = art.Type
                     /\ heap[cur[j]].Labels = art.Labels
                     /\ heap[cur[j]].Tags = IF art.IsAcc THEN art.Tags ELSE kept

\* an accessory survived on its parent's tags and was emitted with its own tags,
\* next to an individual artifact whose tags were narrowed
C2_Witness ==
  /\ FirstOut /\ IsTagStrategy(fs[1])
  /\ \E k \in 1..Len(input) : \E j \in 1..Len(cur) :
       /\ heap[k].IsAcc /\ heap[cur[j]].Digest = heap[k].Digest
       /\ heap[cur[j]].Tags = heap[k].Tags
       /\ heap[k].Tags # SelectSeq(heap[k].ParentTags, LAMBDA t : KeepsTag(fs[1], t))
  /\ \E k \in 1..Len(input) : \E j \in 1..Len(cur) :
       /\ ~heap[k].IsAcc /\ heap[cur[j]].Digest = heap[k].Digest
       /\ Len(heap[cur[j]].Tags) < Len(heap[k].Tags)

\* no step changes the caller's list or any record of it
FrameStep ==
  /\ input' = input
  /\ \A k \in 1..Len(input) : heap'[k] = heap[k]

HasTagStrategy == \E i \in 1..Len(fs) : IsTagStrategy(fs[i])

\* an output record is the input record exactly when no tag strategy copied it
OutputIdentity ==
  ReturnedOk =>
    \A j \in 1..Len(ret.artifacts) :
      LET r == ret.artifacts[j]
          o == Origin(r)
      IN /\ heap[r].Tags # heap[o].Tags => r # o
         /\ r = o <=> (~HasTagStrategy \/ TagsForMatching(heap[o]) = << >>)

\* C3 (amended): no step of a call, successful or not, changes the input list
\* or an input record; a narrowed output is a record distinct from the input
\* record; an output is the original record exactly when the rules hold no Tag
\* or TagRegex rule with a non-empty pattern or the artifact's tag source is
\* empty (a tagged artifact that survives a tag rule is always a new record).
C3_Frame == [][FrameStep /\ OutputIdentity']_vars

C3_Witness ==
  /\ ReturnedOk
  /\ \E j \in 1..Len(ret.artifacts) :
       /\ ret.artifacts[j] # Origin(ret.artifacts[j])
       /\ Len(heap[ret.artifacts[j]].Tags) < Len(heap[Origin(ret.artifacts[j])].Tags)
  /\ \E j \in 1..Len(ret.artifacts) : ret.artifacts[j] = Origin(ret.artifacts[j])

\* the claim as stated: an output whose tags no rule narrowed is the original record
OriginalIdentity ==
  ReturnedOk =>
    \A j \in 1..Len(ret.artifacts) :
      LET r == ret.artifacts[j]
          o == Origin(r)
      IN /\ heap[r].Tags # heap[o].Tags => r # o
         /\ heap[r].Tags = heap[o].Tags => r = o

\* C3 as stated: frame, and an artifact no tag rule had to narrow is returned as the original record
C3_Original == [][FrameStep /\ OriginalIdentity']_vars

\* the strategy step at hand returns an error
StepErrs ==
  /\ pc = "filter" /\ si <= Len(fs)
  /\ ~ArtifactFilter_Filter(fs[si], heap, cur).panic
  /\ ArtifactFilter_Filter(fs[si], heap, cur).err # NoErr

\* C5: when a strategy returns an error, the pipeline returns that error with
\* no artifact list, the strategies applied are exactly those up to it, and
\* nothing is applied after the return.
C5_FirstErrorAborts ==
  [][/\ StepErrs =>
          /\ pc' = "done"
          /\ ret' = [artifacts |-> << >>,
                     err |-> ArtifactFilter_Filter(fs[si], heap, cur).err]
          /\ applied' = [k \in 1..si |-> k]
     /\ pc = "done" => applied' = applied
     /\ (pc' = "done" /\ ret'.err = NoErr) => ~StepErrs]_vars

\* an error was returned although input artifacts were at hand and a later strategy was never applied
C5_Witness ==
  /\ pc = "done" /\ ret.err # NoErr
  /\ Len(applied) < Len(fs)
  /\ cur # << >>

\* digests of the records of a list, resolved in heap h
Digests(h, list) == { h[list[j]].Digest : j \in 1..Len(list) }

Flip(decoration) == IF decoration = Excludes THEN Matches ELSE Excludes

\* the first strategy with the other decoration, applied to the same input
Flipped ==
  ArtifactFilter_Filter([fs[1] EXCEPT !.decoration = Flip(fs[1].decoration)], InputHeap, input)

\* C7 (amended): for a Label or LabelRegex rule that returns no error every
\* input artifact is kept by exactly one of the two decorations; for a Tag or
\* TagRegex rule that returns no error every input artifact is kept by at
\* least one of them, and by both exactly when its tag source holds both a tag
\* the pattern matches and a tag it does not match.
C7_DecorationComplement ==
  (FirstOut /\ (IsTagStrategy(fs[1]) \/ IsLabelStrategy(fs[1]))) =>
    LET a == Digests(heap, cur)
        b == Digests(Flipped.heap, Flipped.list)
    IN /\ Flipped.err = NoErr /\ ~Flipped.panic
       /\ a \cup b = Digests(heap, input)
       /\ IsLabelStrategy(fs[1]) => a \cap b = {}
       /\ IsTagStrategy(fs[1]) =>
            \A k \in 1..Len(input) :
              heap[k].Digest \in a \cap b <=>
                LET src == TagsForMatching(heap[k])
                IN /\ \E i \in 1..Len(src) : KeepsTag(fs[1], src[i])
                   /\ \E i \in 1..Len(src) : ~KeepsTag(fs[1], src[i])

\* a tag rule keeps one artifact under both decorations and another under only one
C7_Witness ==
  /\ FirstOut /\ IsTagStrategy(fs[1])
  /\ Digests(heap, cur) \cap Digests(Flipped.heap, Flipped.list) # {}
  /\ Digests(heap, cur) # Digests(Flipped.heap, Flipped.list)

\* C7 as stated: the two decorations partition the input, for all four rule kinds
C7_Original ==
  (FirstOut /\ (IsTagStrategy(fs[1]) \/ IsLabelStrategy(fs[1]))) =>
    /\ Digests(heap, cur) \cup Digests(Flipped.heap, Flipped.list) = Digests(heap, input)
    /\ Digests(heap, cur) \cap Digests(Flipped.heap, Flipped.list) = {}

Recognized(filter) ==
  filter.Type \in {FilterTypeLabel, FilterTypeLabelRegex, FilterTypeTag, FilterTypeTagRegex}

\* the strategy a recognized rule stands for
StrategyOf(filter) ==
  IF filter.Type = FilterTypeLabel
    THEN [kind |-> "artifactLabelFilter", pattern |-> << >>,
          labels |-> filter.Value, decoration |-> filter.Decoration]
  ELSE IF filter.Type = FilterTypeLabelRegex
    THEN [kind |-> "artifactLabelFilterRegex", pattern |-> << >>,
          labels |-> filter.Value, decoration |-> filter.Decoration]
  ELSE IF filter.Type = FilterTypeTag
    THEN [kind |-> "artifactTagFilter", pattern |-> filter.Value,
          labels |-> << >>, decoration |-> filter.Decoration]
  ELSE [kind |-> "artifactTagFilterRegex", pattern |-> filter.Value,
        labels |-> << >>, decoration |-> filter.Decoration]

\* one strategy per recognized rule, in the order of the rules
ExpectedStrategies ==
  LET rec == SelectSeq(filters, Recognized)
  IN [k \in 1..Len(rec) |-> StrategyOf(rec[k])]

RECURSIVE Compose(_, _, _)
\* the strategies applied one after another, each to the previous one's output
Compose(strategies, h, list) ==
  IF strategies = << >> THEN [heap |-> h, list |-> list, err |-> NoErr, panic |-> FALSE]
  ELSE LET r == ArtifactFilter_Filter(Head(strategies), h, list)
       IN IF r.panic \/ r.err # NoErr THEN r
          ELSE Compose(Tail(strategies), r.heap, r.list)

\* the records a list of references stands for
Records(h, list) == [j \in 1..Len(list) |-> h[list[j]]]

\* C8: building never fails and yields one strategy per recognized rule in rule
\* order; a call that returns no error returns the composition of the
\* recognized rules' strategies in declaration order, and the input list itself
\* when no rule is recognized.
C8_BuildAndCompose ==
  call = "DoFilterArtifacts" =>
    /\ pc = "build" => fs = SubSeq(ExpectedStrategies, 1, Len(fs))
    /\ pc # "build" => fs = ExpectedStrategies
    /\ pc = "done" =>
         LET c == Compose(ExpectedStrategies, InputHeap, input)
         IN /\ ~c.panic /\ c.err = ret.err
            /\ ret.err = NoErr => Records(heap, ret.artifacts) = Records(c.heap, c.list)
            /\ ExpectedStrategies = << >> => (ret.err = NoErr /\ ret.artifacts = input)

\* two different recognized rules were composed, kept something and changed the list
C8_Witness ==
  /\ ReturnedOk
  /\ Len(fs) >= 2 /\ fs[1] # fs[2]
  /\ ret.artifacts # << >>
  /\ Records(heap, ret.artifacts) # Records(heap, input)

\* AND across the patterns, OR across the artifact's labels
AndOfAny(patterns, artLabels) ==
  \A i \in 1..Len(patterns) : \E j \in 1..Len(artLabels) : MatchString(patterns[i], artLabels[j])

AllCompile(patterns) ==
  \A i \in 1..Len(patterns) : RegexCompileErr(patterns[i]) = NoErr

\* C1: a LabelRegex filter with a non-empty list of compilable patterns keeps,
\* under Matches, exactly the artifacts that have for every pattern a label the
\* pattern matches, and under Excludes exactly the others.
C1_LabelRegexAndOfAny ==
  (/\ FirstOut
   /\ fs[1].kind = "artifactLabelFilterRegex"
   /\ Len(fs[1].labels) > 0
   /\ AllCompile(fs[1].labels)) =>
    cur = SelectSeq(input,
                    LAMBDA r : IF fs[1].decoration = Excludes
                               THEN ~AndOfAny(fs[1].labels, heap[r].Labels)
                               ELSE AndOfAny(fs[1].labels, heap[r].Labels))

\* does an artifact with this tag source pass the tag strategy f
PassesOn(f, src) ==
  IF src = << >> THEN KeepsTag(f, S_empty)
  ELSE \E i \in 1..Len(src) : KeepsTag(f, src[i])

\* C4: in a pipeline of Tag/TagRegex rules every rule decides an accessory's
\* survival on the accessory's parentTags: the accessory is in the result iff
\* every rule passes its parentTags.
C4_AccessoryUsesParentTags ==
  (ReturnedOk /\ Len(fs) = Len(filters) /\ \A i \in 1..Len(fs) : IsTagStrategy(fs[i])) =>
    \A k \in 1..Len(input) :
      heap[k].IsAcc =>
        (Positions(ret.artifacts, heap[k].Digest) # {}
           <=> \A i \in 1..Len(fs) : PassesOn(fs[i], heap[k].ParentTags))

\* C6: a LabelRegex filter call whose pattern list holds an uncompilable
\* pattern returns an error, whatever the artifact list.
C6_LabelRegexCompileError ==
  (/\ call = "DoFilterArtifacts" /\ pc = "done"
   /\ Len(fs) = 1
   /\ fs[1].kind = "artifactLabelFilterRegex"
   /\ ~AllCompile(fs[1].labels)) =>
    ret.err # NoErr

\* C9: the type filter returns the subsequence of the input whose type equals,
\* ignoring case, one of the configured types (each artifact at most once), and
\* the input itself when no type is configured.
C9_TypeFilterSubsequence ==
  (call = "artifactTypeFilter.Filter" /\ pc = "done") =>
    /\ ret.err = NoErr
    /\ ret.artifacts =
         IF types = << >> THEN input
         ELSE SelectSeq(input,
                        LAMBDA r : \E i \in 1..Len(types) : EqualFold(heap[r].Type, types[i]))

\* C10: a LabelRegex filter call never fails with an index out of range.
C10_NoIndexOutOfRange == pc # "panic"

====
